---- MODULE Spec2Model ----
(***************************************************************************)
(* rmfile: the pattern sets (TestSet and its four variants), the content   *)
(* hashers (hashlib.sha1 and _GcidHasher), and the evaluator (TestSets)    *)
(* of src/rmfile/core.py, as a state machine.                              *)
(*                                                                         *)
(* Strings are sequences of one-character strings, byte strings are        *)
(* sequences of small integers.  SHA-1 is scaled down to an 8-bit          *)
(* streaming hash with a two-byte digest; the gcid piece sizes and the     *)
(* default buffer size are scaled down with it.                            *)
(***************************************************************************)
EXTENDS Integers, Sequences, FiniteSets, TLC

\* ---------------------------------------------------------------- bounds
\* Longest file content, in bytes.
MaxLen == 5
\* Number of test()/add() calls one run makes.
MaxCalls == 2

\* ------------------------------------------------------- scaled constants
\* io.DEFAULT_BUFFER_SIZE (8192 in CPython), scaled.
DEFAULT_BUFFER_SIZE == 3
\* xlgcid.get_gcid_piece_size: first piece size (0x40000), the piece count
\* above which the size doubles (0x200), the largest size (0x200000), scaled.
GCID_PIECE_MIN == 2
GCID_PIECE_COUNT == 2
GCID_PIECE_MAX == 4
\* The hash state is one byte wide; a digest byte is 4 bits wide.
SHA1_MOD == 256
SHA1_IV == 7
SHA1_MUL == 13
BYTE_MOD == 16

\* ---------------------------------------------------------------- strings
UpperChars == <<"A", "B", "C", "D", "E", "F">>
LowerChars == <<"a", "b", "c", "d", "e", "f">>
\* Character order (ASCII order of the characters the model uses).
Alphabet ==
    <<" ", "0", "1", "2", "3", "4", "5", "6", "7", "8", "9",
      "A", "B", "C", "D", "E", "F", "a", "b", "c", "d", "e", "f", "t", "u">>

Ord(c) == CHOOSE i \in 1..Len(Alphabet) : Alphabet[i] = c

char_lower(c) ==
    IF \E i \in 1..Len(UpperChars) : UpperChars[i] = c
    THEN LowerChars[CHOOSE i \in 1..Len(UpperChars) : UpperChars[i] = c]
    ELSE c

char_upper(c) ==
    IF \E i \in 1..Len(LowerChars) : LowerChars[i] = c
    THEN UpperChars[CHOOSE i \in 1..Len(LowerChars) : LowerChars[i] = c]
    ELSE c

\* str.lower()
str_lower(s) == [i \in 1..Len(s) |-> char_lower(s[i])]

\* str.upper(), used only to write seed files in upper case
str_upper(s) == [i \in 1..Len(s) |-> char_upper(s[i])]

\* str.strip(): drop leading and trailing whitespace
str_strip(s) ==
    LET nonblank == {i \in 1..Len(s) : s[i] # " "}
    IN  IF nonblank = {} THEN <<>>
        ELSE LET lo == CHOOSE i \in nonblank : \A j \in nonblank : i <= j
                 hi == CHOOSE i \in nonblank : \A j \in nonblank : j <= i
             IN  SubSeq(s, lo, hi)

\* s < t for Python strings
RECURSIVE str_less(_, _)
str_less(s, t) ==
    IF t = <<>> THEN FALSE
    ELSE IF s = <<>> THEN TRUE
    ELSE IF Head(s) # Head(t) THEN Ord(Head(s)) < Ord(Head(t))
    ELSE str_less(Tail(s), Tail(t))

\* sorted(S) for a set of strings
RECURSIVE sorted(_)
sorted(S) ==
    IF S = {} THEN <<>>
    ELSE LET m == CHOOSE x \in S : \A y \in S : x = y \/ str_less(x, y)
         IN  <<m>> \o sorted(S \ {m})

\* os.path.basename: a path is the sequence of its components
basename(path) == path[Len(path)]

Min(a, b) == IF a < b THEN a ELSE b

\* ---------------------------------------------------------------- hashing
\* hashlib.sha1(): a fresh hash state
sha1_new == SHA1_IV

\* sha1.update(buf): fold the bytes of buf into the state, in order
RECURSIVE sha1_update(_, _)
sha1_update(h, buf) ==
    IF buf = <<>> THEN h
    ELSE sha1_update((h * SHA1_MUL + Head(buf) + 1) % SHA1_MOD, Tail(buf))

\* sha1.digest(): the state as bytes
sha1_digest(h) == <<h \div BYTE_MOD, h % BYTE_MOD>>

\* bytes.hex(): one lower-case hexadecimal digit per (4-bit) byte
HexDigits ==
    <<"0", "1", "2", "3", "4", "5", "6", "7", "8", "9", "a", "b", "c", "d", "e", "f">>

bytes_hex(bs) == [i \in 1..Len(bs) |-> HexDigits[bs[i] + 1]]

\* _GcidHasher.update on the outer state: hash the buffer, feed its digest
gcid_update(h, buf) == sha1_update(h, sha1_digest(sha1_update(sha1_new, buf)))

\* h.update(buf) for a hasher record [name, h]
hasher_update(hr, buf) ==
    IF hr.name = "gcid" THEN [hr EXCEPT !.h = gcid_update(hr.h, buf)]
    ELSE [hr EXCEPT !.h = sha1_update(hr.h, buf)]

\* h.digest()
hasher_digest(hr) == sha1_digest(hr.h)

\* xlgcid.get_gcid_piece_size(total_size)
RECURSIVE gcid_piece_loop(_, _)
gcid_piece_loop(total_size, piece_size) ==
    IF total_size > GCID_PIECE_COUNT * piece_size /\ piece_size < GCID_PIECE_MAX
    THEN gcid_piece_loop(total_size, piece_size * 2)
    ELSE piece_size

get_gcid_piece_size(total_size) == gcid_piece_loop(total_size, GCID_PIECE_MIN)

\* ----------------------------------------------------------- pattern sets
\* TestSet._parpare_set: strip every line, drop the empty string; the
\* iname, sha1 and gcid variants lower-case what is left
TestSet_parpare_set(lines) ==
    {str_strip(lines[i]) : i \in 1..Len(lines)} \ {<<>>}

parpare_set(type, lines) ==
    IF type = "name" THEN TestSet_parpare_set(lines)
    ELSE {str_lower(x) : x \in TestSet_parpare_set(lines)}

\* TestSet.__init__
TestSet(type, name, lines) ==
    [type |-> type, name |-> name,
     dataset |-> parpare_set(type, lines), adding_rows |-> {}]

\* TestContext.__init__: the digest map is a set of <<algorithm, hex>> pairs
TestContext(path) == [path |-> path, hashs |-> {}]

\* ctx.hashs[key]
hashs_get(hashs, key) == (CHOOSE e \in hashs : e[1] = key)[2]

\* ctx.hashs[key] = value
hashs_set(hashs, key, value) ==
    {e \in hashs : e[1] # key} \cup {<<key, value>>}

\* (variant: the iname value is not lower-cased)
read_value_iname_exact(ts, c) ==
    IF ts.type = "name" \/ ts.type = "iname" THEN basename(c.path)
    ELSE str_lower(hashs_get(c.hashs, ts.type))

\* _read_value of the four variants
read_value(ts, c) ==
    IF ts.type = "name" THEN basename(c.path)
    ELSE IF ts.type = "iname" THEN str_lower(basename(c.path))
    ELSE str_lower(hashs_get(c.hashs, ts.type))

\* TestSet.test
TestSet_test(ts, c) == read_value(ts, c) \in ts.dataset

\* (variant: the value is recorded without looking at the accepted set)
TestSet_add_unguarded(ts, c) ==
    [ts EXCEPT !.adding_rows = @ \cup {read_value(ts, c)}]

\* TestSet.add
TestSet_add(ts, c) ==
    IF read_value(ts, c) \notin ts.dataset
    THEN [ts EXCEPT !.adding_rows = @ \cup {read_value(ts, c)}]
    ELSE ts

\* TestSet.all_rows
all_rows(ts) == sorted(ts.dataset \cup ts.adding_rows)

\* is_test_content
is_test_content(ts) == ts.type = "sha1" \/ ts.type = "gcid"

\* ------------------------------------------------------------ file system
\* A file: its path, its bytes, whether it is missing (os.path.getsize and
\* open raise OSError), and the readinto call that raises (0: none does).
File(path, data, missing, fail_at) ==
    [path |-> path, data |-> data, missing |-> missing, fail_at |-> fail_at]

FileBytes == {0, 9}
Contents == UNION {[1..n -> FileBytes] : n \in 0..MaxLen}

ab == <<"a", "b">>
Ab == <<"A", "b">>
ba == <<"b", "a">>
dir_t == <<"t">>
dir_u == <<"u">>
Data1 == <<0, 9, 0>>
Data2 == <<0, 9, 0, 9, 9>>

FixedFS ==
    { File(<<dir_t, ab>>, Data1, FALSE, 0),
      File(<<dir_t, Ab>>, Data1, FALSE, 0),
      File(<<dir_t, ba>>, <<9>>, FALSE, 0),
      File(<<dir_u, ab>>, <<>>, FALSE, 0),
      File(<<dir_u, ba>>, Data2, FALSE, 2),
      File(<<dir_u, Ab>>, Data1, TRUE, 0) }

FileSystems ==
    {FixedFS} \cup {{File(<<dir_t, ab>>, d, FALSE, 0)} : d \in Contents}

\* -------------------------------------------------------- pattern sources
\* Digests as a pattern file would list them.
Sha1Hex(data) == bytes_hex(sha1_digest(sha1_update(sha1_new, data)))

RECURSIVE PieceDigests(_, _)
PieceDigests(data, P) ==
    IF data = <<>> THEN <<>>
    ELSE LET n == Min(P, Len(data))
         IN  sha1_digest(sha1_update(sha1_new, SubSeq(data, 1, n)))
             \o PieceDigests(SubSeq(data, n + 1, Len(data)), P)

GcidHex(data) ==
    bytes_hex(sha1_digest(sha1_update(sha1_new,
        PieceDigests(data, get_gcid_piece_size(Len(data))))))

Absent == [given |-> FALSE, lines |-> <<>>]
Given(lines) == [given |-> TRUE, lines |-> lines]
NoOptions ==
    [name |-> Absent, iname |-> Absent, sha1 |-> Absent, gcid |-> Absent,
     dir_name |-> Absent, dir_iname |-> Absent, dir_sha1 |-> Absent,
     dir_gcid |-> Absent]

NameLines == <<ab, <<>>, <<" ", "b", "a", " ">>>>
INameLines == <<<<"A", "B">>, <<" ", " ">>>>
Sha1Lines == <<str_upper(Sha1Hex(Data1)), <<" ">> \o Sha1Hex(<<>>)>>
GcidLines == <<str_upper(GcidHex(Data1)), GcidHex(<<9, 9, 0, 9>>)>>

OptionChoices ==
    { [NoOptions EXCEPT !.name = Given(NameLines)],
      [NoOptions EXCEPT !.iname = Given(INameLines)],
      [NoOptions EXCEPT !.name = Given(NameLines), !.sha1 = Given(Sha1Lines)],
      [NoOptions EXCEPT !.iname = Given(INameLines), !.gcid = Given(GcidLines)],
      [NoOptions EXCEPT !.sha1 = Given(Sha1Lines), !.gcid = Given(GcidLines)],
      [NoOptions EXCEPT !.gcid = Given(GcidLines)],
      [NoOptions EXCEPT !.sha1 = Given(<<>>)],
      [NoOptions EXCEPT !.sha1 = Given(Sha1Lines), !.dir_sha1 = Given(<<>>)],
      [NoOptions EXCEPT !.gcid = Given(GcidLines), !.dir_gcid = Given(GcidLines)],
      [NoOptions EXCEPT !.name = Given(NameLines), !.iname = Given(INameLines),
                        !.sha1 = Given(Sha1Lines), !.gcid = Given(GcidLines)] }

\* main.load_from: a source that is not given adds nothing
load_from(test_sets, value, set_type, name) ==
    IF value.given THEN Append(test_sets, TestSet(set_type, name, value.lines))
    ELSE test_sets

\* main: the list of pattern sets, in the order main loads them
main(o) ==
    LET t1 == load_from(<<>>, o.name, "name", "name")
        t2 == load_from(t1, o.iname, "iname", "iname")
        t3 == load_from(t2, o.sha1, "sha1", "sha1")
        t4 == load_from(t3, o.gcid, "gcid", "gcid")
        t5 == load_from(t4, o.dir_name, "name", "dir/name.txt")
        t6 == load_from(t5, o.dir_iname, "iname", "dir/iname.txt")
        t7 == load_from(t6, o.dir_sha1, "sha1", "dir/sha1.txt")
    IN  load_from(t7, o.dir_gcid, "gcid", "dir/gcid.txt")

\* The seed lines of the loaded sources, in the same order
seed_lines(o) ==
    LET S(t, v) == IF v.given THEN Append(t, v.lines) ELSE t
    IN  S(S(S(S(S(S(S(S(<<>>, o.name), o.iname), o.sha1), o.gcid),
            o.dir_name), o.dir_iname), o.dir_sha1), o.dir_gcid)

\* ------------------------------------------------------------------ state
VARIABLES
    seeds,        \* the seed lines each pattern set was constructed from
    tests_sets,   \* TestSets.__tests_sets: the pattern sets, in load order
    fs,           \* the files the run walks over
    calls,        \* number of finished test()/add() calls
    pc,           \* position inside the running call
    mode,         \* "test" or "add"
    ctx,          \* the call's TestContext
    buf_sizes,    \* __context_fill_hashs: the non-empty buffer size hints
    buf_size,     \* __context_fill_hashs: the size of the read buffer
    hashers,      \* __context_fill_hashs: one hasher per content set
    pos,          \* read position of the open file
    hi,           \* index of the next hasher whose digest is stored
    result,       \* outcome of the call
    n_bufask,     \* get_buffer_size calls of the call
    n_hashers,    \* get_content_hasher calls of the call
    n_open,       \* open() calls of the call
    n_read,       \* readinto() calls of the call
    writes,       \* stores into ctx.hashs of the call, per algorithm
    adding0,      \* the observed sets when the call started
    prev          \* the previous call: mode, path, result, observed sets after

vars ==
    <<seeds, tests_sets, fs, calls, pc, mode, ctx, buf_sizes, buf_size, hashers,
      pos, hi, result, n_bufask, n_hashers, n_open, n_read, writes, adding0, prev>>

Algos == {"sha1", "gcid"}
NoWrites == [a \in Algos |-> 0]
NoPath == <<>>

\* TestSets.__init__: the two partitions of the pattern sets
metadata_tests_sets == SelectSeq(tests_sets, LAMBDA ts : ~is_test_content(ts))
content_tests_sets == SelectSeq(tests_sets, LAMBDA ts : is_test_content(ts))

\* The file a path names
file_at(path) == CHOOSE f \in fs : f.path = path

\* all(ts.test(ctx) for ts in tss)
all_test(tss, c) == \A i \in 1..Len(tss) : TestSet_test(tss[i], c)

\* The observed sets of all pattern sets
adding_rows_of(tss) == [i \in 1..Len(tss) |-> tss[i].adding_rows]

\* GcidTestSet.get_buffer_size / TestSet.get_buffer_size (0: None)
get_buffer_size(ts, f) ==
    IF ts.type = "gcid" THEN get_gcid_piece_size(Len(f.data)) ELSE 0

\* (variant: a hasher made by an earlier call is used again)
get_content_hasher_cached(ts) ==
    IF \E i \in 1..Len(hashers) : hashers[i].name = ts.type
    THEN hashers[CHOOSE i \in 1..Len(hashers) : hashers[i].name = ts.type]
    ELSE [name |-> ts.type, h |-> sha1_new]

\* Sha1TestSet.get_content_hasher / GcidTestSet.get_content_hasher
get_content_hasher(ts) == [name |-> ts.type, h |-> sha1_new]

\* (variant: the hints are ignored)
choose_buf_size_default(sizes) == DEFAULT_BUFFER_SIZE

\* lines 146-150: the read buffer size chosen from the hints
choose_buf_size(sizes) ==
    IF sizes # <<>> THEN sizes[1] ELSE DEFAULT_BUFFER_SIZE

Init ==
    /\ \E o \in OptionChoices :
         /\ seeds = seed_lines(o)
         /\ tests_sets = main(o)
    /\ fs \in FileSystems
    /\ calls = 0
    /\ pc = "idle"
    /\ mode = "none"
    /\ ctx = TestContext(NoPath)
    /\ buf_sizes = <<>>
    /\ buf_size = 0
    /\ hashers = <<>>
    /\ pos = 0
    /\ hi = 0
    /\ result = "pending"
    /\ n_bufask = 0
    /\ n_hashers = 0
    /\ n_open = 0
    /\ n_read = 0
    /\ writes = NoWrites
    /\ adding0 = adding_rows_of(tests_sets)
    /\ prev = [mode |-> "none", path |-> NoPath, result |-> "pending",
               adding |-> <<>>]

\* What every call resets when it starts
StartCall(m, f) ==
    /\ pc = "idle"
    /\ calls < MaxCalls
    /\ mode' = m
    /\ ctx' = TestContext(f.path)
    /\ buf_sizes' = <<>>
    /\ buf_size' = 0
    /\ pos' = 0
    /\ hi' = 0
    /\ n_bufask' = 0
    /\ n_hashers' = 0
    /\ n_open' = 0
    /\ n_read' = 0
    /\ writes' = NoWrites
    /\ adding0' = adding_rows_of(tests_sets)
    /\ UNCHANGED <<seeds, fs, calls, hashers, prev>>

\* (variant: the metadata result is not looked at before the content)
Call_test_noshortcut(f) ==
    /\ StartCall("test", f)
    /\ pc' = "fill"
    /\ result' = "pending"
    /\ UNCHANGED tests_sets

\* TestSets.test, lines 164-169: the metadata tests
Call_test(f) ==
    /\ StartCall("test", f)
    /\ IF all_test(metadata_tests_sets, TestContext(f.path))
       THEN pc' = "fill" /\ result' = "pending"
       ELSE pc' = "done" /\ result' = "False"
    /\ UNCHANGED tests_sets

\* (variant: add() skips a file the metadata sets reject)
Call_add_shortcut(f) ==
    /\ StartCall("add", f)
    /\ IF all_test(metadata_tests_sets, TestContext(f.path))
       THEN pc' = "fill" /\ result' = "pending"
       ELSE pc' = "done" /\ result' = "None"
    /\ UNCHANGED tests_sets

\* (variant: the metadata sets are fed before the content is read)
Call_add_eager(f) ==
    /\ StartCall("add", f)
    /\ pc' = "fill"
    /\ result' = "pending"
    /\ tests_sets' = [i \in 1..Len(tests_sets) |->
                        IF is_test_content(tests_sets[i]) THEN tests_sets[i]
                        ELSE TestSet_add(tests_sets[i], TestContext(f.path))]

\* TestSets.add, lines 179-180
Call_add(f) ==
    /\ StartCall("add", f)
    /\ pc' = "fill"
    /\ result' = "pending"
    /\ UNCHANGED tests_sets

\* __context_fill_hashs, lines 144-154: the hints, the assert, the hashers
FillHashs ==
    /\ pc = "fill"
    /\ LET tss == content_tests_sets
           f == file_at(ctx.path)
           gcids == {i \in 1..Len(tss) : tss[i].type = "gcid"}
           all_sizes == [i \in 1..Len(tss) |-> get_buffer_size(tss[i], f)]
           sizes == SelectSeq(all_sizes, LAMBDA bz : bz # 0)
       IN  IF tss = <<>>
           THEN /\ pc' = "filled"
                /\ UNCHANGED <<buf_sizes, buf_size, hashers, result, n_bufask,
                               n_hashers>>
           ELSE IF f.missing /\ gcids # {}
           THEN \* os.path.getsize raises in the first gcid set asked
                /\ pc' = "done"
                /\ result' = "OSError"
                /\ n_bufask' = CHOOSE i \in gcids : \A j \in gcids : i <= j
                /\ UNCHANGED <<buf_sizes, buf_size, hashers, n_hashers>>
           ELSE IF Len(sizes) > 1
           THEN \* assert len(buf_sizes) == 1
                /\ pc' = "done"
                /\ result' = "AssertionError"
                /\ buf_sizes' = sizes
                /\ n_bufask' = Len(tss)
                /\ UNCHANGED <<buf_size, hashers, n_hashers>>
           ELSE /\ pc' = "open"
                /\ buf_sizes' = sizes
                /\ buf_size' = choose_buf_size(sizes)
                /\ hashers' = [i \in 1..Len(tss) |-> get_content_hasher(tss[i])]
                /\ n_bufask' = Len(tss)
                /\ n_hashers' = Len(tss)
                /\ UNCHANGED result
    /\ UNCHANGED <<seeds, tests_sets, fs, calls, mode, ctx, pos, hi, n_open,
                   n_read, writes, adding0, prev>>

\* (variant: a file that cannot be opened counts as not matching)
Open_swallow ==
    /\ pc = "open"
    /\ n_open' = n_open + 1
    /\ IF file_at(ctx.path).missing
       THEN pc' = "done" /\ result' = "False"
       ELSE pc' = "read" /\ UNCHANGED result
    /\ pos' = 0
    /\ UNCHANGED <<seeds, tests_sets, fs, calls, mode, ctx, buf_sizes, buf_size,
                   hashers, hi, n_bufask, n_hashers, n_read, writes, adding0, prev>>

\* line 156: open(ctx.path, 'rb')
Open ==
    /\ pc = "open"
    /\ n_open' = n_open + 1
    /\ IF file_at(ctx.path).missing
       THEN pc' = "done" /\ result' = "OSError"
       ELSE pc' = "read" /\ UNCHANGED result
    /\ pos' = 0
    /\ UNCHANGED <<seeds, tests_sets, fs, calls, mode, ctx, buf_sizes, buf_size,
                   hashers, hi, n_bufask, n_hashers, n_read, writes, adding0, prev>>

\* lines 157-158: one fp.readinto(buf) and the update of every hasher
ReadInto ==
    /\ pc = "read"
    /\ n_read' = n_read + 1
    /\ LET f == file_at(ctx.path)
           read_size == Min(buf_size, Len(f.data) - pos)
           view == SubSeq(f.data, pos + 1, pos + read_size)
       IN  IF f.fail_at = n_read + 1
           THEN /\ pc' = "done"
                /\ result' = "OSError"
                /\ UNCHANGED <<hashers, pos, hi>>
           ELSE IF read_size = 0
           THEN /\ pc' = "digest"
                /\ hi' = 1
                /\ UNCHANGED <<hashers, pos, result>>
           ELSE /\ hashers' = [i \in 1..Len(hashers) |->
                                 hasher_update(hashers[i], view)]
                /\ pos' = pos + read_size
                /\ UNCHANGED <<pc, hi, result>>
    /\ UNCHANGED <<seeds, tests_sets, fs, calls, mode, ctx, buf_sizes, buf_size,
                   n_bufask, n_hashers, n_open, writes, adding0, prev>>

\* lines 160-161: ctx.hashs[h.name] = h.digest().hex().lower(), one hasher
StoreDigest ==
    /\ pc = "digest"
    /\ hi <= Len(hashers)
    /\ LET h == hashers[hi]
       IN  /\ ctx' = [ctx EXCEPT !.hashs =
                        hashs_set(@, h.name, str_lower(bytes_hex(hasher_digest(h))))]
           /\ writes' = [writes EXCEPT ![h.name] = @ + 1]
    /\ hi' = hi + 1
    /\ pc' = IF hi = Len(hashers) THEN "filled" ELSE "digest"
    /\ UNCHANGED <<seeds, tests_sets, fs, calls, mode, buf_sizes, buf_size,
                   hashers, pos, result, n_bufask, n_hashers, n_open, n_read,
                   adding0, prev>>

\* TestSets.test, lines 173-176: the content tests and the result
Finish_test ==
    /\ pc = "filled"
    /\ mode = "test"
    /\ result' = IF all_test(content_tests_sets, ctx) THEN "True" ELSE "False"
    /\ pc' = "done"
    /\ UNCHANGED <<seeds, tests_sets, fs, calls, mode, ctx, buf_sizes, buf_size,
                   hashers, pos, hi, n_bufask, n_hashers, n_open, n_read, writes,
                   adding0, prev>>

\* TestSets.add, line 183: ts.add(ctx) for every pattern set
Finish_add ==
    /\ pc = "filled"
    /\ mode = "add"
    /\ tests_sets' = [i \in 1..Len(tests_sets) |-> TestSet_add(tests_sets[i], ctx)]
    /\ result' = "None"
    /\ pc' = "done"
    /\ UNCHANGED <<seeds, fs, calls, mode, ctx, buf_sizes, buf_size, hashers,
                   pos, hi, n_bufask, n_hashers, n_open, n_read, writes, adding0,
                   prev>>

\* The call returns, or raises, to main's loop (lines 239-250)
Return ==
    /\ pc = "done"
    /\ pc' = "idle"
    /\ calls' = calls + 1
    /\ prev' = [mode |-> mode, path |-> ctx.path, result |-> result,
                adding |-> adding_rows_of(tests_sets)]
    /\ UNCHANGED <<seeds, tests_sets, fs, mode, ctx, buf_sizes, buf_size,
                   hashers, pos, hi, result, n_bufask, n_hashers, n_open, n_read,
                   writes, adding0>>

Next ==
    \/ \E f \in fs : Call_test(f)
    \/ \E f \in fs : Call_add(f)
    \/ FillHashs
    \/ Open
    \/ ReadInto
    \/ StoreDigest
    \/ Finish_test
    \/ Finish_add
    \/ Return

Spec == Init /\ [][Next]_vars

\* ================================================================= claims
\* Reference notions the claims are stated with, independent of the steps
\* of the evaluator.

\* The file the running (or last) call is about
cur == file_at(ctx.path)
InCall == mode # "none"

\* The pieces of a byte string for piece size P: ceil(L / P) pieces, every
\* one P bytes long except a shorter last one; none when L = 0
Pieces(data, P) ==
    [k \in 1..((Len(data) + P - 1) \div P) |->
        SubSeq(data, (k - 1) * P + 1, Min(k * P, Len(data)))]

Sha1Bytes(data) == sha1_digest(sha1_update(sha1_new, data))

RECURSIVE ConcatDigests(_)
ConcatDigests(ps) ==
    IF ps = <<>> THEN <<>> ELSE Sha1Bytes(Head(ps)) \o ConcatDigests(Tail(ps))

GcidRef(data) ==
    bytes_hex(Sha1Bytes(ConcatDigests(Pieces(data, get_gcid_piece_size(Len(data))))))

\* A pattern set accepts a file: its accepted set holds the file's value
Accepts(ts, f) ==
    CASE ts.type = "name" -> basename(f.path) \in ts.dataset
      [] ts.type = "iname" -> str_lower(basename(f.path)) \in ts.dataset
      [] ts.type = "sha1" -> Sha1Hex(f.data) \in ts.dataset
      [] ts.type = "gcid" -> GcidRef(f.data) \in ts.dataset

\* The file's value is accepted or observed
Known(ts, f) ==
    CASE ts.type = "name" -> basename(f.path) \in ts.dataset \cup ts.adding_rows
      [] ts.type = "iname" ->
            str_lower(basename(f.path)) \in ts.dataset \cup ts.adding_rows
      [] ts.type = "sha1" -> Sha1Hex(f.data) \in ts.dataset \cup ts.adding_rows
      [] ts.type = "gcid" -> GcidRef(f.data) \in ts.dataset \cup ts.adding_rows

MetadataRejects ==
    \E i \in 1..Len(tests_sets) :
        ~is_test_content(tests_sets[i]) /\ ~Accepts(tests_sets[i], cur)

HasContentSets == \E i \in 1..Len(tests_sets) : is_test_content(tests_sets[i])
HasMetadataSets == \E i \in 1..Len(tests_sets) : ~is_test_content(tests_sets[i])

HashNames == {e[1] : e \in ctx.hashs}

NoInspection ==
    /\ n_bufask = 0
    /\ n_hashers = 0
    /\ n_open = 0
    /\ n_read = 0
    /\ writes = NoWrites
    /\ ctx.hashs = {}

\* C1: when a metadata-only pattern set rejects the file, test() returns
\* False and has asked for no buffer size, created no hasher, opened and
\* read nothing and stored no digest.
C1_ShortCircuit ==
    (mode = "test" /\ MetadataRejects) =>
        /\ NoInspection
        /\ pc \in {"done", "idle"}
        /\ result = "False"

C1_Witness ==
    /\ mode = "test"
    /\ pc = "done"
    /\ MetadataRejects
    /\ HasContentSets
    /\ ~cur.missing
    /\ cur.data # <<>>

\* C2: a test() that ends without an error returns True exactly when every
\* pattern set accepts the file (base name for name, lower-cased base name
\* for iname, the file's digest for sha1 and gcid).
C2_MatchesIffAllAccept ==
    (mode = "test" /\ pc = "done" /\ result \in {"True", "False"}) =>
        ((result = "True") <=>
            \A i \in 1..Len(tests_sets) : Accepts(tests_sets[i], cur))

C2_Witness ==
    /\ mode = "test"
    /\ pc = "done"
    /\ result = "True"
    /\ HasContentSets
    /\ HasMetadataSets
    /\ basename(cur.path) = Ab

\* C3: the gcid digest stored by content inspection is the SHA-1 of the
\* concatenated SHA-1 digests of the file's pieces of PieceSize(L) bytes
\* (a shorter last piece, no empty trailing piece, no piece when L = 0).
C3_GcidIsHashOfPieceHashes ==
    \A e \in ctx.hashs :
        e[1] = "gcid" =>
            /\ e[2] = GcidRef(cur.data)
            /\ (cur.data = <<>> => e[2] = bytes_hex(Sha1Bytes(<<>>)))

C3_Witness ==
    /\ "gcid" \in HashNames
    /\ Len(cur.data) > get_gcid_piece_size(Len(cur.data))
    /\ Len(cur.data) % get_gcid_piece_size(Len(cur.data)) # 0

\* C4: content inspection fails with a configuration conflict only when
\* the hints hold more than one distinct value; when all hints are the same
\* value, inspection of a readable file reads it in one pass with that size
\* and stores a digest for every content set's algorithm.
C4_ConflictOnlyOnDistinctHints ==
    /\ result = "AssertionError" =>
           Cardinality({buf_sizes[i] : i \in 1..Len(buf_sizes)}) > 1
    /\ (/\ InCall
        /\ pc = "done"
        /\ HasContentSets
        /\ ~(mode = "test" /\ MetadataRejects)
        /\ ~cur.missing
        /\ cur.fail_at = 0) =>
           /\ n_open = 1
           /\ \A i \in 1..Len(buf_sizes) : buf_sizes[i] = buf_size
           /\ \A i \in 1..Len(tests_sets) :
                 is_test_content(tests_sets[i]) => tests_sets[i].type \in HashNames

\* C5: the accepted set and the observed set of every pattern set are
\* disjoint, and the accepted set is the normalized seed it was built from.
C5_AcceptedObservedDisjoint ==
    \A i \in 1..Len(tests_sets) :
        /\ tests_sets[i].dataset \cap tests_sets[i].adding_rows = {}
        /\ tests_sets[i].dataset = parpare_set(tests_sets[i].type, seeds[i])

C5_Witness ==
    /\ mode = "add"
    /\ pc = "done"
    /\ result = "None"
    /\ \E i \in 1..Len(tests_sets) :
          /\ Accepts(tests_sets[i], cur)
          /\ tests_sets[i].adding_rows = {}
    /\ \E j \in 1..Len(tests_sets) : tests_sets[j].adding_rows # {}

\* C6: a second add() of the same unchanged file leaves every observed set,
\* and every all_rows() result, as the first add() left it.
C6_ObserveIdempotent ==
    (/\ mode = "add" /\ pc = "done" /\ result = "None"
     /\ prev.mode = "add" /\ prev.result = "None" /\ prev.path = ctx.path) =>
        /\ adding_rows_of(tests_sets) = prev.adding
        /\ \A i \in 1..Len(tests_sets) :
              all_rows(tests_sets[i]) =
                  sorted(tests_sets[i].dataset \cup prev.adding[i])

C6_Witness ==
    /\ mode = "add" /\ pc = "done" /\ result = "None"
    /\ prev.mode = "add" /\ prev.result = "None" /\ prev.path = ctx.path
    /\ HasContentSets
    /\ \E i \in 1..Len(tests_sets) :
          is_test_content(tests_sets[i]) /\ tests_sets[i].adding_rows # {}

\* C7: an open or read failure inside test() ends the call with the error:
\* no True or False result, one open at most, no read after the failing
\* one, and no digest stored in the context.
C7_IOFailurePropagates ==
    /\ (mode = "test" /\ result = "OSError") =>
          /\ pc \in {"done", "idle"}
          /\ ctx.hashs = {}
          /\ writes = NoWrites
          /\ n_open <= 1
          /\ (cur.fail_at > 0 => n_read <= cur.fail_at)
    /\ (/\ mode = "test" /\ pc = "done"
        /\ (cur.missing \/ cur.fail_at > 0)
        /\ n_bufask > 0
        /\ result # "AssertionError") =>
          result = "OSError"

C7_Witness ==
    /\ mode = "test"
    /\ pc = "done"
    /\ result = "OSError"
    /\ n_read = 2
    /\ pos > 0
    /\ HasMetadataSets

\* C8: add() does not short-circuit: a finished add() has computed the
\* digest of every content set's algorithm, also when a metadata set
\* rejects the file, and only then added the file's value to every set.
C8_ObserveSeesEveryFile ==
    /\ (mode = "add" /\ pc \in {"fill", "open", "read", "digest", "filled"}) =>
          adding_rows_of(tests_sets) = adding0
    /\ (mode = "add" /\ pc = "done" /\ result = "None") =>
          /\ HasContentSets => n_open = 1
          /\ \A i \in 1..Len(tests_sets) :
                /\ is_test_content(tests_sets[i]) =>
                      tests_sets[i].type \in HashNames
                /\ Known(tests_sets[i], cur)

C8_Witness ==
    /\ mode = "add"
    /\ pc = "done"
    /\ result = "None"
    /\ MetadataRejects
    /\ HasContentSets
    /\ n_read > 1

\* C9: within one call, the digest entry of each algorithm is stored at
\* most once, also when two content sets use the same algorithm.
C9_DigestStoredAtMostOnce ==
    \A a \in Algos : writes[a] <= 1

\* C10: an add() that fails in content inspection (conflicting hints, a
\* file that cannot be sized or opened, a failing read) leaves the observed
\* set of every pattern set as it was, the metadata-only sets included.
C10_ObserveAllOrNothing ==
    (mode = "add" /\ result \in {"OSError", "AssertionError"}) =>
        adding_rows_of(tests_sets) = adding0

C10_Witness ==
    /\ mode = "add"
    /\ pc = "done"
    /\ result = "OSError"
    /\ n_read = 2
    /\ \E i \in 1..Len(tests_sets) :
          ~is_test_content(tests_sets[i]) /\ ~Known(tests_sets[i], cur)

====
